---- MODULE Spec2Model ----
(***************************************************************************)
(* Model of travel_planner/agentic_travel_planner.py: the location         *)
(* resolver (get_city_code, get_airport_code, get_city_coordinates) with   *)
(* its two module-level caches, and the travel data fetcher                *)
(* (find_best_flight, find_best_hotel, get_activities).                    *)
(*                                                                         *)
(* Python strings that the code slices or upper-cases are sequences of     *)
(* one-character strings.  An optional value (a missing dict key, None) is *)
(* a sequence of length 0, a present value v is <<v>>.  The Amadeus client *)
(* is an input: every call draws its response from a bounded set.          *)
(***************************************************************************)
EXTENDS Integers, Sequences, FiniteSets, TLC

VARIABLES code_cache, coordinate_cache, cache_origin, last, ncalls

vars == <<code_cache, coordinate_cache, cache_origin, last, ncalls>>

\* ---------------------------------------------------------------- bounds
MaxCalls == 2
MaxItems == 4

\* ------------------------------------------------------- python helpers
None == <<>>

Some(v) == <<v>>

CharUpper(c) ==
    CASE c = "a" -> "A"
      [] c = "i" -> "I"
      [] c = "p" -> "P"
      [] c = "q" -> "Q"
      [] c = "r" -> "R"
      [] c = "s" -> "S"
      [] c = "x" -> "X"
      [] c = "z" -> "Z"
      [] OTHER -> c

StrUpper(s) == [i \in 1..Len(s) |-> CharUpper(s[i])]

Min(a, b) == IF a < b THEN a ELSE b

SliceTo(s, n) == SubSeq(s, 1, Min(n, Len(s)))

Truthy(opt) == opt # None /\ opt[1] # 0

EmptyDict == [k \in {} |-> <<>>]

DictPut(d, k, v) == [x \in (DOMAIN d) \cup {k} |-> IF x = k THEN v ELSE d[x]]

\* ------------------------------------------------------------ inputs
Paris == <<"P", "a", "r", "i", "s">>
PARIS == <<"P", "A", "R", "I", "S">>
Zzqx == <<"Z", "z", "q", "x">>
Pa == <<"p", "a">>
PAR == <<"P", "A", "R">>
CDG == <<"C", "D", "G">>
ZZQ == <<"Z", "Z", "Q">>

CityNames == {<<>>, Pa, Paris, PARIS, Zzqx}

CityCodes == {PAR}

\* get_airport_code is given the origin city name or the destination city code
AirportArgs == {Paris, PARIS, PAR}

AirportCodes == {CDG}

CodeArgs == {PAR, ZZQ}

Latitudes == {None, Some(0), Some(1)}

Longitudes == {None, Some(0), Some(1), Some(2)}

GeoCodes ==
    {[tag |-> "absent", latitude |-> None, longitude |-> None],
     [tag |-> "null", latitude |-> None, longitude |-> None]}
    \cup [tag : {"dict"}, latitude : Latitudes, longitude : Longitudes]

NoGeo == [tag |-> "absent", latitude |-> None, longitude |-> None]

Failure(kind) == [kind |-> kind, data |-> <<>>]

Data(d) == [kind |-> "data", data |-> d]

\* responses of amadeus.reference_data.locations.get; only data[0] is read
CityResponses ==
    {Failure("error"), Data(<<>>),
     Data(<<[iataCode |-> None, geoCode |-> NoGeo]>>)}
    \cup {Data(<<[iataCode |-> Some(c), geoCode |-> g]>>) :
            c \in CityCodes, g \in GeoCodes}

AirportResponses ==
    {Failure("error"), Data(<<>>),
     Data(<<[iataCode |-> None, geoCode |-> NoGeo]>>)}
    \cup {Data(<<[iataCode |-> Some(c), geoCode |-> NoGeo]>>) : c \in AirportCodes}

NoResponse == Failure("unused")

\* a response exists only for a query that is issued
Answers(issued, responses) == IF issued THEN responses ELSE {NoResponse}

Failed(resp) ==
    \/ resp.kind # "data"
    \/ resp.data = <<>>
    \/ resp.data[1].iataCode = None

\* ------------------------------------------------- location resolver
Outcome(ret, raised, cc, co, queries) ==
    [ret |-> ret, raised |-> raised, code_cache |-> cc,
     coordinate_cache |-> co, queries |-> queries]

Query(subType, keyword) == [subType |-> subType, keyword |-> keyword]

\* mutant: the membership test forgets to upper-case the name
CacheHit_CaseSensitive(cc, city_name) == city_name \in DOMAIN cc

CacheHit(cc, city_name) == StrUpper(city_name) \in DOMAIN cc

\* mutant: the entry is stored under the name as typed
StoreCode_RawKey(cc, city_name, code) == DictPut(cc, city_name, code)

StoreCode(cc, city_name, code) == DictPut(cc, StrUpper(city_name), code)

\* mutant: the truncated name is not upper-cased
Fallback_NoUpper(city_name) == Some(SliceTo(city_name, 3))

Fallback(city_name) == Some(StrUpper(SliceTo(city_name, 3)))

get_city_code(cc, co, city_name, resp) ==
    IF CacheHit(cc, city_name)
    THEN Outcome(Some(cc[StrUpper(city_name)]), FALSE, cc, co, <<>>)
    ELSE LET q == <<Query("CITY", city_name)>>
             fallback == Fallback(city_name)
         IN  IF resp.kind = "error"
             THEN Outcome(fallback, FALSE, cc, co, q)
             ELSE IF resp.data = <<>>
             THEN Outcome(fallback, FALSE, cc, co, q)
             ELSE IF resp.data[1].iataCode = None
             THEN Outcome(fallback, FALSE, cc, co, q)
             ELSE LET code == resp.data[1].iataCode[1]
                      cc1 == StoreCode(cc, city_name, code)
                      geo == resp.data[1].geoCode
                  IN  IF geo.tag = "null"
                      THEN Outcome(fallback, FALSE, cc1, co, q)
                      ELSE IF Truthy(geo.latitude) /\ Truthy(geo.longitude)
                      THEN Outcome(Some(code), FALSE, cc1,
                                   DictPut(co, code, <<geo.latitude[1], geo.longitude[1]>>), q)
                      ELSE Outcome(Some(code), FALSE, cc1, co, q)

AfterQuery(q, o) == [o EXCEPT !.queries = q \o o.queries]

\* mutant: a failed airport lookup goes straight to the truncation
UseCityCode_Truncate(cc, co, city_name, city_resp) ==
    Outcome(Some(StrUpper(SliceTo(city_name, 3))), FALSE, cc, co, <<>>)

UseCityCode(cc, co, city_name, city_resp) == get_city_code(cc, co, city_name, city_resp)

get_airport_code(cc, co, city_name, resp, city_resp) ==
    IF CacheHit(cc, city_name)
    THEN Outcome(Some(cc[StrUpper(city_name)]), FALSE, cc, co, <<>>)
    ELSE LET q == <<Query("AIRPORT", city_name)>>
         IN  IF resp.kind = "error"
             THEN AfterQuery(q, UseCityCode(cc, co, city_name, city_resp))
             ELSE IF resp.data = <<>>
             THEN AfterQuery(q, UseCityCode(cc, co, city_name, city_resp))
             ELSE IF resp.data[1].iataCode = None
             THEN AfterQuery(q, UseCityCode(cc, co, city_name, city_resp))
             ELSE LET code == resp.data[1].iataCode[1]
                  IN  Outcome(Some(code), FALSE, StoreCode(cc, city_name, code), co, q)

get_city_coordinates(cc, co, city_code, resp) ==
    IF city_code \in DOMAIN co
    THEN Outcome(Some(co[city_code]), FALSE, cc, co, <<>>)
    ELSE LET q == <<Query("CITY", city_code)>>
         IN  IF resp.kind = "error"
             THEN Outcome(None, FALSE, cc, co, q)
             ELSE IF resp.data = <<>>
             THEN Outcome(None, FALSE, cc, co, q)
             ELSE LET geo == resp.data[1].geoCode
                  IN  IF geo.tag = "null"
                      THEN Outcome(None, FALSE, cc, co, q)
                      ELSE IF Truthy(geo.latitude) /\ Truthy(geo.longitude)
                      THEN Outcome(Some(<<geo.latitude[1], geo.longitude[1]>>), FALSE, cc,
                                   DictPut(co, city_code, <<geo.latitude[1], geo.longitude[1]>>), q)
                      ELSE Outcome(None, FALSE, cc, co, q)

\* ------------------------------------------------ travel data fetcher
\* first offers of amadeus.shopping.flight_offers_search.get
Segment(carrier, dep, arr) == [carrierCode |-> carrier, departure |-> dep, arrival |-> arr]

Offer450 ==
    [price |-> Some("450"),
     itineraries |-> <<[segments |-> <<Segment(Some("AF"), Some("T1"), Some("T2")),
                                       Segment(Some("KL"), Some("T3"), Some("T4"))>>]>>]

OfferNoPrice == [Offer450 EXCEPT !.price = None]

OfferNoItinerary == [Offer450 EXCEPT !.itineraries = <<>>]

OfferNoSegments == [Offer450 EXCEPT !.itineraries = <<[segments |-> <<>>]>>]

OfferNoCarrier ==
    [Offer450 EXCEPT !.itineraries =
        <<[segments |-> <<Segment(None, Some("T1"), Some("T2"))>>]>>]

OfferNoArrival ==
    [Offer450 EXCEPT !.itineraries =
        <<[segments |-> <<Segment(Some("AF"), Some("T1"), None)>>]>>]

FlightResponses ==
    {Failure("response_error"), Failure("other_error"), Failure("none"), Data(<<>>),
     Data(<<Offer450>>), Data(<<Offer450, OfferNoPrice>>), Data(<<OfferNoPrice>>),
     Data(<<OfferNoItinerary>>), Data(<<OfferNoSegments>>), Data(<<OfferNoCarrier>>),
     Data(<<OfferNoArrival>>)}

FlightOption(airline, price, departure_time, arrival_time) ==
    [airline |-> airline, price |-> price,
     departure_time |-> departure_time, arrival_time |-> arrival_time]

NoFlightsFound == FlightOption("No flights found", <<"N/A">>, "N/A", "N/A")

\* mutant: the error handler reuses the "not found" record
FlightError_AsNotFound == FlightOption("No flights found", <<"N/A">>, "N/A", "N/A")

FlightError == FlightOption("Error fetching flights", <<"N/A">>, "N/A", "N/A")

Returns(v, queries) == [ret |-> Some(v), raised |-> FALSE, queries |-> queries]

Raises(queries) == [ret |-> None, raised |-> TRUE, queries |-> queries]

find_best_flight(origin, destination, resp) ==
    LET q == <<Query("FLIGHT", destination)>>
    IN  IF resp.kind = "response_error"
        THEN Returns(FlightError, q)
        ELSE IF resp.kind = "other_error"
        THEN Raises(q)
        ELSE IF resp.kind = "none" \/ resp.data = <<>>
        THEN Returns(NoFlightsFound, q)
        ELSE LET best == resp.data[1]
             IN  IF best.price = None \/ best.itineraries = <<>>
                 THEN Raises(q)
                 ELSE LET segments == best.itineraries[1].segments
                      IN  IF segments = <<>>
                          THEN Raises(q)
                          ELSE LET first_segment == segments[1]
                                   last_segment == segments[Len(segments)]
                               IN  IF \/ first_segment.carrierCode = None
                                      \/ first_segment.departure = None
                                      \/ last_segment.arrival = None
                                   THEN Raises(q)
                                   ELSE Returns(FlightOption(first_segment.carrierCode[1],
                                                             <<best.price[1], " USD">>,
                                                             first_segment.departure[1],
                                                             last_segment.arrival[1]), q)

\* first entries of amadeus.get('/v3/shopping/hotel-offers')
HotelInfo(tag, name, lines) == [tag |-> tag, name |-> name, lines |-> lines]

HotelRitz ==
    [hotel |-> HotelInfo("dict", Some("Ritz"), <<"15 Place Vendome">>),
     offers |-> Some(<<[total |-> Some("300")]>>)]

HotelBare ==
    [hotel |-> HotelInfo("absent", None, <<>>),
     offers |-> Some(<<[total |-> None]>>)]

HotelNull ==
    [hotel |-> HotelInfo("null", None, <<>>),
     offers |-> Some(<<[total |-> Some("300")]>>)]

HotelOffersAbsent == [HotelRitz EXCEPT !.offers = None]

HotelOffersEmpty == [HotelRitz EXCEPT !.offers = Some(<<>>)]

HotelResponses ==
    {Failure("response_error"), Failure("other_error"), Failure("none"), Data(<<>>),
     Data(<<HotelRitz>>), Data(<<HotelBare>>), Data(<<HotelNull>>),
     Data(<<HotelOffersAbsent>>), Data(<<HotelOffersEmpty, HotelRitz>>)}

HotelOption(name, nightly_price, address) ==
    [name |-> name, nightly_price |-> nightly_price, address |-> address]

NoHotelOffers == HotelOption("No hotel offers found", <<"N/A">>, "N/A")

HotelApiError == HotelOption("Error fetching hotels (API issue)", <<"N/A">>, "N/A")

HotelGeneralError == HotelOption("Error fetching hotels (General)", <<"N/A">>, "N/A")

find_best_hotel(destination, resp) ==
    LET q == <<Query("HOTEL", destination)>>
    IN  IF resp.kind = "response_error"
        THEN Returns(HotelApiError, q)
        ELSE IF resp.kind = "other_error"
        THEN Returns(HotelGeneralError, q)
        ELSE IF \/ resp.kind = "none"
                \/ resp.data = <<>>
                \/ resp.data[1].offers = None
                \/ resp.data[1].offers[1] = <<>>
        THEN Returns(NoHotelOffers, q)
        ELSE LET hotel_info == resp.data[1].hotel
                 offer_info == resp.data[1].offers[1][1]
             IN  IF hotel_info.tag = "null"
                 THEN Returns(HotelGeneralError, q)
                 ELSE LET name == IF hotel_info.name = None THEN "Unknown Hotel"
                                  ELSE hotel_info.name[1]
                          address == IF hotel_info.lines = <<>> THEN "Address not available"
                                     ELSE hotel_info.lines[1]
                          price == IF offer_info.total = None THEN "N/A"
                                   ELSE offer_info.total[1]
                      IN  Returns(HotelOption(name, <<price, " USD">>, address), q)

\* items of amadeus.shopping.activities.get; the i-th item of the result list
Item(i) ==
    [name |-> IF i % 3 = 0 THEN None ELSE Some("Louvre"),
     category |-> IF i % 2 = 0 THEN None ELSE Some("SIGHTS"),
     shortDescription |-> IF i % 2 = 0 THEN Some("A museum") ELSE None,
     amount |-> IF i > 1 THEN Some("20") ELSE None,
     currencyCode |-> IF i < 3 THEN Some("EUR") ELSE None]

ActivityResponses ==
    {Failure("response_error"), Failure("other_error"), Failure("none")}
    \cup {Data([i \in 1..n |-> Item(i)]) : n \in 0..MaxItems}

Activity(name, description) == [name |-> name, description |-> description]

ActivityOf(item) ==
    LET name == IF item.name = None THEN "Unknown Activity" ELSE item.name[1]
        category == IF item.category = None THEN "N/A" ELSE item.category[1]
        description == IF item.shortDescription # None
                       THEN <<item.shortDescription[1]>>
                       ELSE <<"Category: ", category>>
    IN  IF item.currencyCode # None /\ item.amount # None
        THEN Activity(name, description
                            \o <<" (Price: ", item.amount[1], " ", item.currencyCode[1], ")">>)
        ELSE Activity(name, description)

\* mutant: an empty result list is returned as it is
StaticFallback_Empty == <<>>

StaticFallback ==
    <<Activity("Local Exploration", <<"Explore nearby attractions and sights.">>),
      Activity("Dining Experience", <<"Try a highly-rated local restaurant.">>)>>

get_activities(cc, co, destination, coord_resp, resp) ==
    LET c == get_city_coordinates(cc, co, destination, coord_resp)
        q == c.queries \o <<Query("ACTIVITIES", destination)>>
        done(acts, queries) == Outcome(Some(acts), FALSE, c.code_cache, c.coordinate_cache, queries)
    IN  IF c.ret = None
        THEN done(<<Activity("Coordinate Error",
                             <<"Cannot search activities without coordinates.">>)>>, c.queries)
        ELSE IF resp.kind = "response_error"
        THEN done(<<Activity("City Walking Tour",
                             <<"Explore the main sights on foot (API Error Fallback).">>),
                    Activity("Local Market",
                             <<"Enjoy local food and crafts (API Error Fallback).">>)>>, q)
        ELSE IF resp.kind = "other_error" \/ resp.kind = "none"
        THEN done(<<Activity("Activity Search Failed",
                             <<"Check local listings (General Error Fallback).">>)>>, q)
        ELSE LET activities_list == [i \in 1..Len(SliceTo(resp.data, 3)) |-> ActivityOf(resp.data[i])]
             IN  IF activities_list # <<>>
                 THEN done(activities_list, q)
                 ELSE done(StaticFallback, q)

\* ------------------------------------------------------------ state
Call(op, arg, o, resp, resp2) ==
    [op |-> op, arg |-> arg, ret |-> o.ret, raised |-> o.raised,
     queries |-> o.queries, resp |-> resp, resp2 |-> resp2]

\* which call and which lookup wrote each code-cache entry (history of lines 96 and 127)
NewOrigin(op, o) ==
    [k \in DOMAIN o.code_cache |->
        IF k \in DOMAIN code_cache THEN cache_origin[k]
        ELSE [op |-> op, subType |-> o.queries[Len(o.queries)].subType]]

Commit(op, arg, o, resp, resp2) ==
    /\ code_cache' = o.code_cache
    /\ coordinate_cache' = o.coordinate_cache
    /\ cache_origin' = NewOrigin(op, o)
    /\ last' = Call(op, arg, o, resp, resp2)
    /\ ncalls' = ncalls + 1

Init ==
    /\ code_cache = EmptyDict
    /\ coordinate_cache = EmptyDict
    /\ cache_origin = EmptyDict
    /\ last = [op |-> "start", arg |-> <<>>, ret |-> None, raised |-> FALSE,
               queries |-> <<>>, resp |-> NoResponse, resp2 |-> NoResponse]
    /\ ncalls = 0

GetCityCode ==
    /\ ncalls < MaxCalls
    /\ \E city_name \in CityNames :
       \E resp \in Answers(~CacheHit(code_cache, city_name), CityResponses) :
          Commit("get_city_code", city_name,
                 get_city_code(code_cache, coordinate_cache, city_name, resp),
                 resp, NoResponse)

GetAirportCode ==
    /\ ncalls < MaxCalls
    /\ \E city_name \in AirportArgs :
       \E resp \in Answers(~CacheHit(code_cache, city_name), AirportResponses) :
       \E city_resp \in Answers(resp # NoResponse /\ Failed(resp), CityResponses) :
          Commit("get_airport_code", city_name,
                 get_airport_code(code_cache, coordinate_cache, city_name, resp, city_resp),
                 resp, city_resp)

GetCityCoordinates ==
    /\ ncalls < MaxCalls
    /\ \E city_code \in CodeArgs :
       \E resp \in Answers(city_code \notin DOMAIN coordinate_cache, CityResponses) :
          Commit("get_city_coordinates", city_code,
                 get_city_coordinates(code_cache, coordinate_cache, city_code, resp),
                 resp, NoResponse)

\* the fetchers that never touch the caches
CommitFetch(op, arg, o, resp) ==
    /\ last' = [op |-> op, arg |-> arg, ret |-> o.ret, raised |-> o.raised,
                queries |-> o.queries, resp |-> resp, resp2 |-> NoResponse]
    /\ ncalls' = ncalls + 1
    /\ UNCHANGED <<code_cache, coordinate_cache, cache_origin>>

FindBestFlight ==
    /\ ncalls < MaxCalls
    /\ \E destination \in AirportCodes, resp \in FlightResponses :
          CommitFetch("find_best_flight", destination,
                      find_best_flight(CDG, destination, resp), resp)

FindBestHotel ==
    /\ ncalls < MaxCalls
    /\ \E destination \in CityCodes, resp \in HotelResponses :
          CommitFetch("find_best_hotel", destination,
                      find_best_hotel(destination, resp), resp)

GetActivities ==
    /\ ncalls < MaxCalls
    /\ \E destination \in CodeArgs :
       \E coord_resp \in Answers(destination \notin DOMAIN coordinate_cache, CityResponses) :
       \E resp \in Answers(get_city_coordinates(code_cache, coordinate_cache,
                                                destination, coord_resp).ret # None,
                           ActivityResponses) :
          Commit("get_activities", destination,
                 get_activities(code_cache, coordinate_cache, destination, coord_resp, resp),
                 coord_resp, resp)

Next ==
    \/ GetCityCode
    \/ GetAirportCode
    \/ GetCityCoordinates
    \/ FindBestFlight
    \/ FindBestHotel
    \/ GetActivities

Spec == Init /\ [][Next]_vars

\* ------------------------------------------------------------ claims
IsCity(c) == c.op = "get_city_code"

IsAirport(c) == c.op = "get_airport_code"

Miss(c) == c.queries # <<>>

SameName(a, b) == StrUpper(a.arg) = StrUpper(b.arg)

\* what city_name[:3].upper() is, character by character
Truncated(name) ==
    [i \in 1..(IF Len(name) < 3 THEN Len(name) ELSE 3) |-> CharUpper(name[i])]

\* the geo data of a successful lookup, when its first result carries both fields
HasGeo(resp) ==
    /\ ~Failed(resp)
    /\ resp.data[1].geoCode.tag = "dict"
    /\ resp.data[1].geoCode.latitude # None
    /\ resp.data[1].geoCode.longitude # None

GeoPair(resp) ==
    <<resp.data[1].geoCode.latitude[1], resp.data[1].geoCode.longitude[1]>>

\* C1 (as stated): two consecutive get_city_code calls with the same name,
\* compared case-insensitively, issue at most one lookup query in total,
\* whatever the outcome of the first call's lookup.
C1_AtMostOneQuery ==
    [][(IsCity(last) /\ IsCity(last') /\ SameName(last, last'))
        => Len(last.queries) + Len(last'.queries) <= 1]_vars

\* C1 (amended): when the first of two consecutive get_city_code calls with
\* the same name (case-insensitive) was answered from the cache or its lookup
\* returned a first result carrying an iataCode, the second call issues no
\* query, and the two calls issue at most one query in total.
C1_SecondCallCached ==
    [][(/\ IsCity(last) /\ IsCity(last') /\ SameName(last, last')
        /\ (~Miss(last) \/ ~Failed(last.resp)))
        => /\ last'.queries = <<>>
           /\ last'.ret = Some(code_cache[StrUpper(last.arg)])
           /\ Len(last.queries) + Len(last'.queries) <= 1]_vars

\* C1 witness: a second call answered from an entry that an earlier
\* get_city_code call for the same upper-cased name stored.
C1_Witness ==
    /\ ncalls = 2
    /\ IsCity(last)
    /\ last.arg = PARIS
    /\ last.queries = <<>>
    /\ cache_origin[StrUpper(last.arg)].op = "get_city_code"

\* C2: every code returned by get_airport_code or get_city_code is a
\* non-empty string, for all names and all lookup outcomes.
C2_CodeNeverEmpty ==
    (IsCity(last) \/ IsAirport(last))
        => /\ ~last.raised
           /\ last.ret # None
           /\ last.ret[1] # <<>>

\* C3: find_best_flight, find_best_hotel and get_activities absorb every
\* failure of the external call or of reading its response: they return a
\* record and raise nothing.
C3_NoExceptionEscapes ==
    last.op \in {"find_best_flight", "find_best_hotel", "get_activities"}
        => /\ ~last.raised
           /\ last.ret # None

\* C4: after a get_city_code lookup whose first result carries an iataCode, a
\* latitude and a longitude (any values, 0 included), the pair is in the
\* coordinate cache under the resolved code, and get_city_coordinates for that
\* code returns it without a query.
C4_GeoAlwaysCached ==
    (IsCity(last) /\ Miss(last) /\ HasGeo(last.resp))
        => LET code == last.resp.data[1].iataCode[1]
               next == get_city_coordinates(code_cache, coordinate_cache, code, Data(<<>>))
           IN  /\ code \in DOMAIN coordinate_cache
               /\ coordinate_cache[code] = GeoPair(last.resp)
               /\ next.queries = <<>>
               /\ next.ret = Some(GeoPair(last.resp))

\* C5: on a cache miss with an AIRPORT lookup that is empty or raises,
\* get_airport_code returns what get_city_code(name) returns from the same
\* cache state and leaves the caches as that call leaves them; the queries
\* are the airport query followed by that call's city query, each once, and no
\* get_airport_code call issues more than two queries.
C5_AirportDelegatesToCity ==
    [][IsAirport(last')
        => /\ Len(last'.queries) <= 2
           /\ (Miss(last') /\ Failed(last'.resp))
                => LET city == get_city_code(code_cache, coordinate_cache,
                                             last'.arg, last'.resp2)
                   IN  /\ ~CacheHit(code_cache, last'.arg)
                       /\ last'.ret = city.ret
                       /\ last'.raised = city.raised
                       /\ code_cache' = city.code_cache
                       /\ coordinate_cache' = city.coordinate_cache
                       /\ last'.queries = <<Query("AIRPORT", last'.arg),
                                            Query("CITY", last'.arg)>>]_vars

\* C5 witness: an airport lookup failed and the city lookup supplied the code.
C5_Witness ==
    /\ IsAirport(last)
    /\ Failed(last.resp)
    /\ Len(last.queries) = 2
    /\ last.ret = Some(PAR)

\* C6: on a cache miss whose CITY lookup is empty or raises (while querying
\* or while reading the response), get_city_code raises nothing and returns
\* the first three characters of the name upper-cased; "Zzqx" gives "ZZQ".
C6_FallbackIsTruncation ==
    (/\ IsCity(last) /\ Miss(last)
     /\ (Failed(last.resp) \/ last.resp.data[1].geoCode.tag = "null"))
        => /\ ~last.raised
           /\ last.ret = Some(Truncated(last.arg))
           /\ (last.arg = Zzqx => last.ret = Some(<<"Z", "Z", "Q">>))
           /\ (last.arg = Pa => last.ret = Some(<<"P", "A">>))

\* C6 witness: "Zzqx" was not cached, its lookup failed, "ZZQ" came back.
C6_Witness ==
    /\ IsCity(last)
    /\ Miss(last)
    /\ last.arg = Zzqx
    /\ last.resp.kind = "error"
    /\ last.ret = Some(ZZQ)

Names(acts) == [i \in 1..Len(acts) |-> acts[i].name]

\* C7: get_activities never returns an empty sequence: with coordinates and
\* zero results it returns the static fallback ("Local Exploration", "Dining
\* Experience") in that order; without coordinates the single "Coordinate
\* Error" entry; in every branch between 1 and 3 entries.
C7_ActivitiesNeverEmpty ==
    last.op = "get_activities"
        => /\ ~last.raised
           /\ last.ret # None
           /\ Len(last.ret[1]) \in 1..3
           /\ last.resp2 = Data(<<>>)
                => /\ Names(last.ret[1]) = <<"Local Exploration", "Dining Experience">>
                   /\ last.ret[1][1].description = <<"Explore nearby attractions and sights.">>
                   /\ last.ret[1][2].description = <<"Try a highly-rated local restaurant.">>
           /\ last.resp2 = NoResponse
                => Names(last.ret[1]) = <<"Coordinate Error">>
           /\ (last.resp2.kind = "data" /\ last.resp2.data # <<>>)
                => Len(last.ret[1]) = (IF Len(last.resp2.data) < 3
                                       THEN Len(last.resp2.data) ELSE 3)

\* C7 witness: coordinates were available and the activity query had no results.
C7_Witness ==
    /\ last.op = "get_activities"
    /\ last.resp2 = Data(<<>>)
    /\ Len(last.ret[1]) = 2

EmptyResult(resp) == resp.kind = "none" \/ (resp.kind = "data" /\ resp.data = <<>>)

NoOffers(resp) ==
    \/ EmptyResult(resp)
    \/ /\ resp.kind = "data"
       /\ (resp.data[1].offers = None \/ resp.data[1].offers = Some(<<>>))

\* C8: an empty result gives the "not found" sentinel, FlightOption("No
\* flights found", "N/A", "N/A", "N/A") or HotelOption("No hotel offers
\* found", "N/A", "N/A"), and that value comes back on no other path.
C8_NotFoundSentinel ==
    /\ last.op = "find_best_flight"
        => /\ EmptyResult(last.resp)
                => last.ret = Some([airline |-> "No flights found", price |-> <<"N/A">>,
                                    departure_time |-> "N/A", arrival_time |-> "N/A"])
           /\ (last.ret # None /\ last.ret[1].airline = "No flights found")
                => EmptyResult(last.resp)
    /\ last.op = "find_best_hotel"
        => /\ NoOffers(last.resp)
                => last.ret = Some([name |-> "No hotel offers found",
                                    nightly_price |-> <<"N/A">>, address |-> "N/A"])
           /\ (last.ret # None /\ last.ret[1].name = "No hotel offers found")
                => NoOffers(last.resp)

\* C8 witness: a first hotel without offers gave the hotel "not found" sentinel.
C8_Witness ==
    /\ last.op = "find_best_hotel"
    /\ last.resp.kind = "data"
    /\ last.resp.data # <<>>
    /\ last.ret[1].name = "No hotel offers found"

Stable(old, new) == \A k \in DOMAIN old : k \in DOMAIN new /\ new[k] = old[k]

\* C9 (as stated): an entry of the code cache or of the coordinate cache is
\* never removed and never overwritten with a different value.
C9_EntriesStable ==
    [][Stable(code_cache, code_cache') /\ Stable(coordinate_cache, coordinate_cache')]_vars

\* C9 (amended): no entry of either cache is ever removed, and an entry of
\* the code cache is never overwritten with a different value.
C9_GrowOnly ==
    [][/\ Stable(code_cache, code_cache')
       /\ DOMAIN coordinate_cache \subseteq DOMAIN coordinate_cache']_vars

\* C9 witness: a lookup stored a second code while another name was cached.
C9_Witness ==
    /\ ncalls = 2
    /\ Miss(last)
    /\ Cardinality(DOMAIN code_cache) = 2
    /\ Cardinality(DOMAIN coordinate_cache) = 1

\* C10: get_city_code never returns, from the cache, a code that an AIRPORT
\* lookup stored for that name, and get_airport_code never returns a cached
\* CITY-lookup code unless a get_airport_code call looked the name up.
C10_NoLeak ==
    /\ (IsCity(last) /\ ~Miss(last))
        => cache_origin[StrUpper(last.arg)].subType = "CITY"
    /\ (IsAirport(last) /\ ~Miss(last))
        => \/ cache_origin[StrUpper(last.arg)].subType = "AIRPORT"
           \/ cache_origin[StrUpper(last.arg)].op = "get_airport_code"

\* the call ended in one of the two fallback returns: the lookup raised or was
\* empty, or reading the response (iataCode, geoCode) raised
EndedInFallback(c) ==
    /\ Miss(c)
    /\ (Failed(c.resp) \/ c.resp.data[1].geoCode.tag = "null")

\* C11: a get_city_code call that returns the truncation fallback adds no
\* entry to the code cache or the coordinate cache; and a call that writes a
\* code to the cache for its name returns that same code.
C11_FallbackLeavesCaches ==
    [][IsCity(last')
        => /\ EndedInFallback(last')
                => /\ code_cache' = code_cache
                   /\ coordinate_cache' = coordinate_cache
           /\ (~CacheHit(code_cache, last'.arg) /\ CacheHit(code_cache', last'.arg))
                => last'.ret = Some(code_cache'[StrUpper(last'.arg)])]_vars
====
